---- MODULE Spec2Model ----
(***************************************************************************)
(* State-machine model of the procurement backend: the category tree       *)
(* (api/v1/endpoints/categories.py over services/category.py), the         *)
(* purchase-order lifecycle (api/v1/endpoints/purchase_orders.py over      *)
(* services/purchase_order.py), shipments (services/shipment.py), the      *)
(* inventory ledger (services/inventory.py) and the database session       *)
(* (db/session.py).  One action is one request handled from start to       *)
(* finish, the endpoint's checks and the service call included; under      *)
(* SpecSession a request is one action per statement of its service        *)
(* method.  Outside SpecUsers every request is made by a caller the        *)
(* permission check lets through.  SpecUsers models the users, their       *)
(* tokens and the authentication of each request (api/deps.py,             *)
(* api/v1/endpoints/auth.py and users.py over services/user.py and         *)
(* services/auth.py).  SpecConcurrentInventory and SpecConcurrentCategory  *)
(* run two requests at a time, one action per read, write and commit.      *)
(* SpecCircular runs would_create_circular_reference one loop iteration    *)
(* per action over parent chains of any shape.                             *)
(***************************************************************************)
EXTENDS Integers, Sequences, FiniteSets, TLC

\* ------------------------------------------------------------------ bounds
\* Number of category rows the store may hold.
MaxCategories == 3
\* Number of product rows the store may hold.
MaxProducts == 1
\* Number of category rows the store may hold beside products.
MaxCategoriesWithProducts == 2
\* Number of purchase orders the store may hold.
MaxOrders == 1
\* Number of line items a create request may carry.
MaxItems == 2
\* Number of approval records kept per purchase order.
MaxApprovals == 1
\* Number of shipments the store may hold.
MaxShipments == 1
\* Number of entries kept in a shipment's status history.
MaxStatusHistory == 1
\* Number of entries of a status history where the history itself is followed.
MaxStatusHistoryFollowed == 2
\* Number of inventory rows the store may hold.
MaxInventory == 1
\* Number of adjustment records and of count records the store may hold.
MaxAdjustments == 1
MaxCounts == 1
\* Largest magnitude a stored inventory quantity may reach.
MaxQuantity == 3
\* Number of category rows the store may hold where requests run step by step.
MaxCategoriesInSession == 2
\* Number of user rows the store may hold.
MaxUsers == 2
\* Number of rows of a category table whose parent chains are malformed.
MaxMalformed == 3

\* Category names requests may carry (CategoryBase.name, min_length = 1).
Names == {"a", "b"}
\* Python's None for an Optional[str] id: category ids are uuid4 strings,
\* modelled as the row's position 1, 2, ... in the table.
NoParent == 0
\* Python's None for CategoryUpdate.name; a name has min_length 1, so the
\* empty string is no name, and "if name" treats both alike.
NoName == ""
\* Ids a request may name: the rows that exist and ids that resolve to nothing.
CategoryIds == 1..MaxCategories
\* Optional[bool] of CategoryUpdate.is_active: <<>> is None, <<b>> is b.
OptBool == {<<>>, <<TRUE>>, <<FALSE>>}

VARIABLES
    categories,      \* the categories table: id -> row
    products,        \* the products table: id -> category_id of the product
    purchase_orders, \* the purchase orders: id -> order with items and approvals
    shipments,       \* the shipments: id -> shipment with items and history
    inventory,       \* the inventory table: id -> row
    inventory_adjustments, \* the adjustment records, in insertion order
    inventory_counts,      \* the count records, in insertion order
    session,         \* the open database session of a request run step by step
    requests,        \* the requests in flight at the same time: client -> call
    users,           \* the users table: id -> row
    tokens,          \* the access tokens login has issued
    caller,          \* the token the last request carried, as it then stood
    walk,            \* the circular-reference check in progress
    last             \* the last request handled: its kind and its response

inventory_vars == <<inventory, inventory_adjustments, inventory_counts>>

user_vars == <<users, tokens, caller>>

vars ==
    <<categories, products, purchase_orders, shipments, inventory_vars,
      session, requests, user_vars, walk, last>>

\* ------------------------------------------------------- models/category.py
Category(name, parent_id, level, path, is_active) ==
    [name |-> name, parent_id |-> parent_id, level |-> level, path |-> path,
     is_active |-> is_active]

\* ----------------------------------------------------- services/category.py
\* select(Category).where(Category.id == category_id): the row exists.
get_category_by_id(cats, category_id) == category_id \in DOMAIN cats

\* The rows get_category_by_name's query selects.
get_category_by_name(cats, name, parent_id) ==
    {i \in DOMAIN cats : cats[i].name = name /\ cats[i].parent_id = parent_id}

\* Mutant: the children are always filtered by is_active.
get_child_categories_active(cats, parent_id, active_only) ==
    {i \in DOMAIN cats : cats[i].parent_id = parent_id /\ cats[i].is_active}

\* select(Category).where(Category.parent_id == parent_id) [is_active == True]
get_child_categories(cats, parent_id, active_only) ==
    {i \in DOMAIN cats : /\ cats[i].parent_id = parent_id
                         /\ (active_only => cats[i].is_active)}

\* count(Category.id) where parent_id == category_id, > 0
has_child_categories(cats, category_id) ==
    Cardinality({i \in DOMAIN cats : cats[i].parent_id = category_id}) > 0

\* "TODO: Implement when Product model is available. For now, return False"
has_associated_products(prods, category_id) == FALSE

\* The level and path the service computes from the parent row, if it resolves.
LevelAndPath(cats, parent_id, name) ==
    IF parent_id # NoParent /\ get_category_by_id(cats, parent_id)
    THEN [level |-> cats[parent_id].level + 1,
          path  |-> cats[parent_id].path \o " / " \o name]
    ELSE [level |-> 0, path |-> name]

\* CategoryService.create_category: the table after the insert and commit.
CategoryService_create_category(cats, name, parent_id, is_active) ==
    LET lp == LevelAndPath(cats, parent_id, name)
    IN  Append(cats, Category(name, parent_id, lp.level, lp.path, is_active))

\* CategoryService.update_category: the table after the UPDATE and commit.
\* (description is carried by the request and stored, and read by nothing.)
CategoryService_update_category(cats, category_id, name, parent_id, is_active) ==
    LET category == cats[category_id]
        new_name == IF name # NoName THEN name ELSE category.name
        lp       == LevelAndPath(cats, parent_id, new_name)
        recompute == parent_id # NoParent \/ name # NoName
    IN  [cats EXCEPT ![category_id] =
            [name      |-> IF name # NoName THEN name ELSE category.name,
             parent_id |-> IF parent_id # NoParent THEN parent_id
                                                   ELSE category.parent_id,
             level     |-> IF recompute THEN lp.level ELSE category.level,
             path      |-> IF recompute THEN lp.path ELSE category.path,
             is_active |-> IF is_active # <<>> THEN is_active[1]
                                               ELSE category.is_active]]

\* The loop of would_create_circular_reference from current_id on.
RECURSIVE CircularWalk(_, _, _, _)
CircularWalk(cats, category_id, current_id, visited) ==
    IF current_id = NoParent \/ current_id \in visited THEN FALSE
    ELSE IF current_id = category_id THEN TRUE
    ELSE CircularWalk(cats, category_id,
                      IF current_id \in DOMAIN cats
                      THEN cats[current_id].parent_id ELSE NoParent,
                      visited \cup {current_id})

\* Mutant: the walk compares only the ancestors of new_parent_id, not
\* new_parent_id itself.
would_create_circular_reference_above(cats, category_id, new_parent_id) ==
    CircularWalk(cats, category_id,
                 IF new_parent_id \in DOMAIN cats
                 THEN cats[new_parent_id].parent_id ELSE NoParent, {})

would_create_circular_reference(cats, category_id, new_parent_id) ==
    CircularWalk(cats, category_id, new_parent_id, {})

\* _deactivate_category_tree: the children (inactive ones too) first, one
\* after the other, then the category itself.
RECURSIVE DeactivateChildren(_, _)
RECURSIVE deactivate_category_tree(_, _)
deactivate_category_tree(cats, category_id) ==
    LET after == DeactivateChildren(cats,
                     get_child_categories(cats, category_id, FALSE))
    IN  [after EXCEPT ![category_id].is_active = FALSE]
DeactivateChildren(cats, children) ==
    IF children = {} THEN cats
    ELSE LET child == CHOOSE c \in children : TRUE
         IN  DeactivateChildren(deactivate_category_tree(cats, child),
                                children \ {child})

\* CategoryService.delete_category on a row that exists.
CategoryService_delete_category(cats, category_id, force) ==
    LET after == IF force THEN deactivate_category_tree(cats, category_id)
                          ELSE cats
    IN  [after EXCEPT ![category_id].is_active = FALSE]

\* ------------------------------------------- api/v1/endpoints/categories.py
Response(status, detail, cats) ==
    [status |-> status, detail |-> detail, categories |-> cats]

\* Mutant: the endpoint does not validate the parent.
create_category_unvalidated(cats, name, parent_id, is_active) ==
    LET existing == get_category_by_name(cats, name, parent_id)
    IN  IF Cardinality(existing) > 1
        THEN Response(500, "MultipleResultsFound", cats)
        ELSE IF existing # {}
        THEN Response(400, "Category name already exists in this parent category", cats)
        ELSE Response(201, "",
                 CategoryService_create_category(cats, name, parent_id, is_active))

\* POST /categories/
create_category(cats, name, parent_id, is_active) ==
    LET existing == get_category_by_name(cats, name, parent_id)
    IN  IF Cardinality(existing) > 1
        THEN Response(500, "MultipleResultsFound", cats)
        ELSE IF existing # {}
        THEN Response(400, "Category name already exists in this parent category", cats)
        ELSE IF parent_id # NoParent /\ ~get_category_by_id(cats, parent_id)
        THEN Response(400, "Parent category not found", cats)
        ELSE Response(201, "",
                 CategoryService_create_category(cats, name, parent_id, is_active))

\* Mutant: the circular-reference check runs only when the name is unchanged.
update_category_unless_renamed(cats, category_id, name, parent_id, is_active) ==
    IF ~get_category_by_id(cats, category_id)
    THEN Response(404, "Category not found", cats)
    ELSE
    LET category == cats[category_id]
        existing == get_category_by_name(cats, name,
                        IF parent_id # NoParent THEN parent_id
                                                ELSE category.parent_id)
        renamed  == name # NoName /\ name # category.name
        moved    == parent_id # NoParent /\ parent_id # category.parent_id
    IN  IF renamed /\ Cardinality(existing) > 1
        THEN Response(500, "MultipleResultsFound", cats)
        ELSE IF renamed /\ existing # {} /\ existing # {category_id}
        THEN Response(400, "Category name already exists in this parent category", cats)
        ELSE IF moved /\ ~get_category_by_id(cats, parent_id)
        THEN Response(400, "Parent category not found", cats)
        ELSE IF moved /\ ~renamed
                /\ would_create_circular_reference(cats, category_id, parent_id)
        THEN Response(400, "Cannot set parent category: would create circular reference", cats)
        ELSE Response(200, "",
                 CategoryService_update_category(cats, category_id, name,
                                                 parent_id, is_active))

\* PUT /categories/{category_id}
update_category(cats, category_id, name, parent_id, is_active) ==
    IF ~get_category_by_id(cats, category_id)
    THEN Response(404, "Category not found", cats)
    ELSE
    LET category == cats[category_id]
        existing == get_category_by_name(cats, name,
                        IF parent_id # NoParent THEN parent_id
                                                ELSE category.parent_id)
        renamed  == name # NoName /\ name # category.name
        moved    == parent_id # NoParent /\ parent_id # category.parent_id
    IN  IF renamed /\ Cardinality(existing) > 1
        THEN Response(500, "MultipleResultsFound", cats)
        ELSE IF renamed /\ existing # {} /\ existing # {category_id}
        THEN Response(400, "Category name already exists in this parent category", cats)
        ELSE IF moved /\ ~get_category_by_id(cats, parent_id)
        THEN Response(400, "Parent category not found", cats)
        ELSE IF moved /\ would_create_circular_reference(cats, category_id, parent_id)
        THEN Response(400, "Cannot set parent category: would create circular reference", cats)
        ELSE Response(200, "",
                 CategoryService_update_category(cats, category_id, name,
                                                 parent_id, is_active))

\* DELETE /categories/{category_id}?force=
delete_category(cats, prods, category_id, force) ==
    IF ~get_category_by_id(cats, category_id)
    THEN Response(404, "Category not found", cats)
    ELSE IF ~force /\ has_child_categories(cats, category_id)
    THEN Response(400, "Cannot delete category with child categories", cats)
    ELSE IF ~force /\ has_associated_products(prods, category_id)
    THEN Response(400, "Cannot delete category with associated products", cats)
    ELSE Response(204, "",
             CategoryService_delete_category(cats, category_id, force))

\* ------------------------------------------------ models/purchase_order.py
\* PurchaseOrderStatus.
PurchaseOrderStatus ==
    {"draft", "pending_approval", "approved", "ordered", "partially_received",
     "received", "cancelled"}
\* ApprovalStatus.
ApprovalStatus == {"pending", "approved", "rejected"}
\* Strings a request's status field (PurchaseOrderBase.status: str) may carry:
\* the lifecycle values and the other status words the code uses.
StatusInputs == PurchaseOrderStatus \cup {"pending", "rejected"}
\* A status field the request leaves unset (model_dump(exclude_unset=True)).
NoStatus == ""
\* A Decimal column the service never assigns and that has no default.
NullDecimal == -1
\* PurchaseOrder.total_amount: mapped_column(Numeric(15, 4), default=0).
DefaultTotalAmount == 0
\* Values of PurchaseOrderBase.expected_delivery_date.
Dates == {1, 2}
\* Ids of the users who make requests.
UserIds == {1, 2}
\* Line items of a create request (quantity > 0, unit_price > 0).
ItemInputs ==
    {[quantity |-> 10, unit_price |-> 5], [quantity |-> 5, unit_price |-> 20]}
ItemLists == UNION {[1..n -> ItemInputs] : n \in 0..MaxItems}

\* ---------------------------------------------- services/purchase_order.py
\* The service's writes are modelled as it makes them: a column it never
\* assigns holds the column's default, or NULL where there is none.

\* PurchaseOrderItem(**item_data.model_dump(), purchase_order_id=...):
\* product_id, quantity, unit_price and notes are set, total_price is not.
PurchaseOrderItem(item_data) ==
    [quantity |-> item_data.quantity, unit_price |-> item_data.unit_price,
     total_price |-> NullDecimal, received_quantity |-> 0]

\* PurchaseOrderService.create_purchase_order: the order row takes the
\* request's fields, status included, and one item row per requested item.
PurchaseOrderService_create_purchase_order(orders, status, date, items, created_by) ==
    Append(orders,
           [status |-> IF status # NoStatus THEN status ELSE "draft",
            expected_delivery_date |-> date,
            total_amount |-> DefaultTotalAmount,
            created_by |-> created_by,
            items |-> [i \in 1..Len(items) |-> PurchaseOrderItem(items[i])],
            approvals |-> <<>>])

\* PurchaseOrderService.update_purchase_order:
\* UPDATE ... values(**model_dump(exclude_unset=True)).
PurchaseOrderService_update_purchase_order(orders, id, status, date) ==
    [orders EXCEPT ![id] =
        [@ EXCEPT !.expected_delivery_date = date,
                  !.status = IF status # NoStatus THEN status ELSE @]]

\* Mutant: the approval is recorded, the order's status is left as it was.
PurchaseOrderService_approve_purchase_order_record_only(orders, id, status, approved_by) ==
    [orders EXCEPT ![id].approvals =
        Append(@, [status |-> status, approved_by |-> approved_by])]

\* PurchaseOrderService.approve_purchase_order: one approval row, and the
\* order's status set to the approval's status.
PurchaseOrderService_approve_purchase_order(orders, id, status, approved_by) ==
    [orders EXCEPT ![id] =
        [@ EXCEPT !.approvals = Append(@, [status |-> status,
                                           approved_by |-> approved_by]),
                  !.status = status]]

\* PurchaseOrderService.cancel_purchase_order is called by the cancel endpoint
\* but is not among the service's methods; it is taken from the lifecycle's
\* description: it sets the order's status to cancelled, whatever it was.
PurchaseOrderService_cancel_purchase_order(orders, id) ==
    [orders EXCEPT ![id].status = "cancelled"]

\* -------------------------------------- api/v1/endpoints/purchase_orders.py
POResponse(status, detail, orders) ==
    [status |-> status, detail |-> detail, purchase_orders |-> orders]

\* POST /purchase-orders/
create_purchase_order(orders, status, date, items, current_user) ==
    POResponse(201, "",
        PurchaseOrderService_create_purchase_order(orders, status, date, items,
                                                   current_user))

\* Mutant: every order that is not received or cancelled may be updated.
update_purchase_order_until_terminal(orders, po_id, status, date) ==
    IF po_id \notin DOMAIN orders
    THEN POResponse(404, "Purchase order not found", orders)
    ELSE IF orders[po_id].status \in {"received", "cancelled"}
    THEN POResponse(400, "Cannot update purchase order in current status", orders)
    ELSE POResponse(200, "",
             PurchaseOrderService_update_purchase_order(orders, po_id, status, date))

\* PUT /purchase-orders/{po_id}
update_purchase_order(orders, po_id, status, date) ==
    IF po_id \notin DOMAIN orders
    THEN POResponse(404, "Purchase order not found", orders)
    ELSE IF orders[po_id].status \notin {"draft", "pending"}
    THEN POResponse(400, "Cannot update purchase order in current status", orders)
    ELSE POResponse(200, "",
             PurchaseOrderService_update_purchase_order(orders, po_id, status, date))

\* POST /purchase-orders/{po_id}/approve
approve_purchase_order(orders, po_id, status, current_user) ==
    IF po_id \notin DOMAIN orders
    THEN POResponse(404, "Purchase order not found", orders)
    ELSE POResponse(200, "",
             PurchaseOrderService_approve_purchase_order(orders, po_id, status,
                                                         current_user))

\* POST /purchase-orders/{po_id}/cancel
cancel_purchase_order(orders, po_id) ==
    IF po_id \notin DOMAIN orders
    THEN POResponse(404, "Purchase order not found", orders)
    ELSE POResponse(200, "",
             PurchaseOrderService_cancel_purchase_order(orders, po_id))

\* ------------------------------------------------------ models/shipment.py
\* ShipmentStatus.
ShipmentStatus ==
    {"pending", "in_transit", "delivered", "partially_delivered", "cancelled",
     "exception"}
\* Values of ShipmentBase.status and ShipmentStatusUpdate.status requests carry.
ShipmentStatusInputs == {"in_transit", "delivered", "partially_delivered"}
\* Items of a create request (ShipmentItemBase: the order's item, quantity > 0).
ShipmentItemInputs ==
    {[purchase_order_item_id |-> 1, quantity |-> 5],
     [purchase_order_item_id |-> 1, quantity |-> 10]}
ShipmentItemLists == UNION {[1..n -> ShipmentItemInputs] : n \in 0..1}
ShipmentIds == 1..MaxShipments

\* ---------------------------------------------------- services/shipment.py
\* ShipmentService.create_shipment: the shipment row takes the request's
\* fields, and one item row per requested item.  Nothing is read or written
\* in the purchase order the shipment names.
ShipmentService_create_shipment(ships, purchase_order_id, status, items) ==
    Append(ships,
           [purchase_order_id |-> purchase_order_id,
            status |-> IF status # NoStatus THEN status ELSE "pending",
            items |-> items,
            status_history |-> <<>>])

\* ShipmentService.update_shipment_status: the status is written and, when
\* the shipment exists, appended to its history.  Only the shipment is
\* written.
ShipmentService_update_shipment_status(ships, shipment_id, status) ==
    IF shipment_id \notin DOMAIN ships THEN ships
    ELSE [ships EXCEPT ![shipment_id] =
             [@ EXCEPT !.status = status,
                       !.status_history = Append(@, status)]]

\* ShipmentService.update_shipment: UPDATE ... values(**model_dump(
\* exclude_unset=True)); of the fields of ShipmentUpdate the status is kept
\* here.  The status history is not written.
ShipmentService_update_shipment(ships, shipment_id, status) ==
    IF shipment_id \notin DOMAIN ships \/ status = NoStatus THEN ships
    ELSE [ships EXCEPT ![shipment_id].status = status]

\* ------------------------------------------ api/v1/endpoints/shipments.py
ShipmentResponse(status, detail, ships) ==
    [status |-> status, detail |-> detail, shipments |-> ships]

\* POST /shipments/
create_shipment(ships, purchase_order_id, status, items) ==
    ShipmentResponse(201, "",
        ShipmentService_create_shipment(ships, purchase_order_id, status, items))

\* PUT /shipments/{shipment_id}
update_shipment(ships, shipment_id, status) ==
    IF shipment_id \notin DOMAIN ships
    THEN ShipmentResponse(404, "Shipment not found", ships)
    ELSE ShipmentResponse(200, "",
             ShipmentService_update_shipment(ships, shipment_id, status))

\* ShipmentService.update_shipment_status as its caller sees it: the
\* shipment (200 here), or None (404 here) when the id resolves to nothing.
update_shipment_status(ships, shipment_id, status) ==
    IF shipment_id \notin DOMAIN ships
    THEN ShipmentResponse(404, "Shipment not found", ships)
    ELSE ShipmentResponse(200, "",
             ShipmentService_update_shipment_status(ships, shipment_id, status))

\* ----------------------------------------------------- schemas/inventory.py
\* Values of InventoryBase.quantity (ge = 0) a create or update may carry.
InventoryQuantities == 0..2
\* Values of InventoryAdjustmentBase.quantity (gt = 0).
AdjustmentQuantities == 1..2
\* Values of InventoryAdjustmentBase.adjustment_type (a str): a word of the
\* schema's comment and values of InventoryAdjustmentType.
AdjustmentTypes == {"addition", "receipt", "issue", "return", "damage"}
\* The user who makes the inventory requests.
InventoryUsers == {1}
\* Values of InventoryCount.counted_quantity (ge = 0).
CountedQuantities == 0..2
\* Ids of inventory rows a request may name.
InventoryIds == 1..(MaxInventory + 1)
\* Values of datetime.utcnow().
Times == {1, 2}
\* None in Inventory.last_count_date.
NoDate == 0

\* --------------------------------------------------- services/inventory.py
InventoryResult(status, detail, inv, adjs, cnts) ==
    [status |-> status, detail |-> detail, inventory |-> inv,
     inventory_adjustments |-> adjs, inventory_counts |-> cnts]

\* InventoryService.create_inventory: a row with the request's quantity.
create_inventory(inv, adjs, cnts, quantity) ==
    InventoryResult(200, "",
        Append(inv, [quantity |-> quantity, last_count_date |-> NoDate]),
        adjs, cnts)

\* InventoryService.update_inventory: UPDATE ... values(**model_dump(...)),
\* whether the row exists or not.
update_inventory(inv, adjs, cnts, inventory_id, quantity) ==
    IF inventory_id \notin DOMAIN inv
    THEN InventoryResult(200, "None", inv, adjs, cnts)
    ELSE InventoryResult(200, "",
             [inv EXCEPT ![inventory_id].quantity = quantity], adjs, cnts)

\* new_quantity of create_inventory_adjustment.
new_quantity(quantity, adjustment_type, adjustment_quantity) ==
    IF adjustment_type = "addition"
    THEN quantity + adjustment_quantity
    ELSE quantity - adjustment_quantity

\* Mutant: the adjustment record is added before the row is looked up.
create_inventory_adjustment_record_first(inv, adjs, cnts, inventory_id, adjustment_type, quantity, created_by) ==
    IF inventory_id \notin DOMAIN inv
    THEN InventoryResult(500, "Inventory not found", inv,
             Append(adjs, [inventory_id |-> inventory_id,
                           adjustment_type |-> adjustment_type,
                           quantity |-> quantity,
                           created_by |-> created_by,
                           previous_quantity |-> 0]),
             cnts)
    ELSE InventoryResult(200, "",
             [inv EXCEPT ![inventory_id].quantity =
                  new_quantity(@, adjustment_type, quantity)],
             Append(adjs, [inventory_id |-> inventory_id,
                           adjustment_type |-> adjustment_type,
                           quantity |-> quantity,
                           created_by |-> created_by,
                           previous_quantity |-> inv[inventory_id].quantity]),
             cnts)

\* InventoryService.create_inventory_adjustment: ValueError when the row is
\* missing; otherwise one adjustment record and the new quantity.
create_inventory_adjustment(inv, adjs, cnts, inventory_id, adjustment_type, quantity, created_by) ==
    IF inventory_id \notin DOMAIN inv
    THEN InventoryResult(500, "Inventory not found", inv, adjs, cnts)
    ELSE InventoryResult(200, "",
             [inv EXCEPT ![inventory_id].quantity =
                  new_quantity(@, adjustment_type, quantity)],
             Append(adjs, [inventory_id |-> inventory_id,
                           adjustment_type |-> adjustment_type,
                           quantity |-> quantity,
                           created_by |-> created_by,
                           previous_quantity |-> inv[inventory_id].quantity]),
             cnts)

\* Mutant: a count rewrites the row also when nothing differs.
create_inventory_count_always_writes(inv, adjs, cnts, inventory_id, counted_quantity, created_by, now) ==
    IF inventory_id \notin DOMAIN inv
    THEN InventoryResult(500, "Inventory not found", inv, adjs, cnts)
    ELSE InventoryResult(200, "",
             [inv EXCEPT ![inventory_id] =
                  [quantity |-> counted_quantity, last_count_date |-> now]],
             adjs,
             Append(cnts, [inventory_id |-> inventory_id,
                           counted_quantity |-> counted_quantity,
                           created_by |-> created_by,
                           system_quantity |-> inv[inventory_id].quantity,
                           difference |->
                               counted_quantity - inv[inventory_id].quantity]))

\* InventoryService.create_inventory_count: ValueError when the row is
\* missing; otherwise one count record, and the row is rewritten when the
\* count differs from it.
create_inventory_count(inv, adjs, cnts, inventory_id, counted_quantity, created_by, now) ==
    IF inventory_id \notin DOMAIN inv
    THEN InventoryResult(500, "Inventory not found", inv, adjs, cnts)
    ELSE LET difference == counted_quantity - inv[inventory_id].quantity
         IN  InventoryResult(200, "",
                 IF difference # 0
                 THEN [inv EXCEPT ![inventory_id] =
                          [quantity |-> counted_quantity,
                           last_count_date |-> now]]
                 ELSE inv,
                 adjs,
                 Append(cnts, [inventory_id |-> inventory_id,
                               counted_quantity |-> counted_quantity,
                               created_by |-> created_by,
                               system_quantity |-> inv[inventory_id].quantity,
                               difference |-> difference]))

\* ---------------------------------------------------- services/product.py
\* ProductService.create_product: a product row naming its category.
create_product(prods, category_id) == Append(prods, category_id)

\* ---------------------------------------------------------- models/user.py
\* A row of the users table (full_name and last_login are read by nothing).
User(email, hashed_password, role, is_active, is_admin) ==
    [email |-> email, hashed_password |-> hashed_password, role |-> role,
     is_active |-> is_active, is_admin |-> is_admin]

\* Values of the role field requests carry (a str in UserCreate, UserUpdate).
RoleInputs == {"viewer", "admin"}
\* None for UserUpdate.role.
NoRole == ""
\* Email addresses and passwords requests carry.
Emails == {"admin@x", "user@x"}
Passwords == {"p", "q"}
\* Ids of user rows a request may name.
UserRowIds == 1..(MaxUsers + 1)

\* ------------------------------------------------------- core/password.py
get_password_hash(password) == <<"bcrypt", password>>

verify_password(plain_password, hashed_password) ==
    hashed_password = get_password_hash(plain_password)

\* ------------------------------------------------------- core/security.py
\* A bearer token: whether jwt.decode accepts it (signature and expiry), and
\* its sub claim.
Token(valid, sub) == [valid |-> valid, sub |-> sub]
\* No sub claim in the payload.
NoSub == 0
\* The request carries no token (the endpoint has no such dependency).
NoToken == Token(FALSE, NoSub)

\* A token as a request carried it, with what the users table held for its
\* subject when the request arrived.
Carried(usrs, token) ==
    [token |-> token,
     stored |-> token.sub \in DOMAIN usrs,
     is_active |-> token.sub \in DOMAIN usrs /\ usrs[token.sub].is_active,
     is_admin |-> token.sub \in DOMAIN usrs /\ usrs[token.sub].is_admin]

\* create_access_token, create_refresh_token: {"exp": ..., "sub": str(subject)}
create_access_token(subject) == Token(TRUE, subject)

\* The tokens a request may carry: those login has issued, a string that
\* jwt.decode refuses, a signed token without sub and a signed token whose
\* subject is no stored user.
TokenInputs(toks) ==
    toks \cup {Token(FALSE, 1), Token(TRUE, NoSub), Token(TRUE, MaxUsers + 1)}

\* ------------------------------------------------------------ api/deps.py
AuthResult(status, detail) == [status |-> status, detail |-> detail]

\* Mutant: the user's is_active is not looked at.
get_current_user_active_or_not(usrs, token) ==
    IF ~token.valid
    THEN AuthResult(500, "Invalid token")
    ELSE IF token.sub = NoSub
    THEN AuthResult(401, "Could not validate credentials")
    ELSE IF token.sub \notin DOMAIN usrs
    THEN AuthResult(500, "Authentication service temporarily unavailable")
    ELSE AuthResult(200, "")

\* get_current_user.  verify_token turns a refused token into ValueError,
\* which except (JWTError, ValidationError) lets through to the general
\* exception handler; the HTTPExceptions raised inside the second try are
\* caught by its except Exception and replaced by the 500 response.
get_current_user(usrs, token) ==
    IF ~token.valid
    THEN AuthResult(500, "Invalid token")
    ELSE IF token.sub = NoSub
    THEN AuthResult(401, "Could not validate credentials")
    ELSE IF token.sub \notin DOMAIN usrs
    THEN AuthResult(500, "Authentication service temporarily unavailable")
    ELSE IF ~usrs[token.sub].is_active
    THEN AuthResult(500, "Authentication service temporarily unavailable")
    ELSE AuthResult(200, "")

\* ------------------------------------------------------- services/user.py
\* UserService.create_user
UserService_create_user(usrs, email, password, role, is_active) ==
    Append(usrs, User(email, get_password_hash(password), role, is_active, FALSE))

\* UserService.update_user on a row that exists: the fields that are not
\* None are written.
UserService_update_user(usrs, user_id, is_active, role) ==
    [usrs EXCEPT ![user_id] =
        [@ EXCEPT !.is_active = IF is_active # <<>> THEN is_active[1] ELSE @,
                  !.role = IF role # NoRole THEN role ELSE @]]

\* UserService.delete_user on a row that exists.
UserService_delete_user(usrs, user_id) ==
    [usrs EXCEPT ![user_id].is_active = FALSE]

\* ------------------------------------------------------- services/auth.py
\* AuthService.authenticate_user: the rows with the email whose password
\* verifies.
authenticate_user(usrs, email, password) ==
    {i \in DOMAIN usrs : /\ usrs[i].email = email
                         /\ verify_password(password, usrs[i].hashed_password)}

\* AuthService.register_user
register_user(usrs, email, password, role) ==
    Append(usrs, User(email, get_password_hash(password), role, TRUE, FALSE))

\* -------------------------------------------------- api/v1/endpoints/auth.py
UserResponse(status, detail, usrs, toks) ==
    [status |-> status, detail |-> detail, users |-> usrs, tokens |-> toks]

\* The response of an endpoint whose get_current_user dependency refused.
Refused(a, usrs, toks) == UserResponse(a.status, a.detail, usrs, toks)

\* POST /auth/register
register(usrs, toks, email, password, role) ==
    IF \E i \in DOMAIN usrs : usrs[i].email = email
    THEN UserResponse(400, "Email already registered", usrs, toks)
    ELSE UserResponse(200, "", register_user(usrs, email, password, role), toks)

\* POST /auth/login
login(usrs, toks, email, password) ==
    LET user == authenticate_user(usrs, email, password)
    IN  IF user = {}
        THEN UserResponse(401, "Incorrect email or password", usrs, toks)
        ELSE LET id == CHOOSE i \in user : TRUE
             IN  IF ~usrs[id].is_active
                 THEN UserResponse(400, "Inactive user", usrs, toks)
                 ELSE UserResponse(200, "", usrs,
                          toks \cup {create_access_token(id)})

\* PUT /auth/me: every field of the body that is set and not None is
\* written to the caller's row.
update_user_me(usrs, toks, token, is_active, role) ==
    LET a == get_current_user(usrs, token)
    IN  IF a.status # 200 THEN Refused(a, usrs, toks)
        ELSE UserResponse(200, "",
                 [usrs EXCEPT ![token.sub] =
                     [@ EXCEPT !.is_active = IF is_active # <<>>
                                             THEN is_active[1] ELSE @,
                               !.role = IF role # NoRole THEN role ELSE @]],
                 toks)

\* ------------------------------------------------- api/v1/endpoints/users.py
\* POST /users/
create_user(usrs, toks, token, email, password, role, is_active) ==
    LET a == get_current_user(usrs, token)
    IN  IF a.status # 200 THEN Refused(a, usrs, toks)
        ELSE IF ~usrs[token.sub].is_admin
        THEN UserResponse(403, "Not enough permissions to create users", usrs, toks)
        ELSE IF \E i \in DOMAIN usrs : usrs[i].email = email
        THEN UserResponse(400, "Email already registered", usrs, toks)
        ELSE UserResponse(201, "",
                 UserService_create_user(usrs, email, password, role, is_active),
                 toks)

\* PUT /users/{user_id}
update_user(usrs, toks, token, user_id, is_active, role) ==
    LET a == get_current_user(usrs, token)
    IN  IF a.status # 200 THEN Refused(a, usrs, toks)
        ELSE IF token.sub # user_id /\ ~usrs[token.sub].is_admin
        THEN UserResponse(403, "Not enough permissions to update this user", usrs, toks)
        ELSE IF user_id \notin DOMAIN usrs
        THEN UserResponse(404, "User not found", usrs, toks)
        ELSE UserResponse(200, "",
                 UserService_update_user(usrs, user_id, is_active, role), toks)

\* DELETE /users/{user_id}
delete_user(usrs, toks, token, user_id) ==
    LET a == get_current_user(usrs, token)
    IN  IF a.status # 200 THEN Refused(a, usrs, toks)
        ELSE IF ~usrs[token.sub].is_admin
        THEN UserResponse(403, "Not enough permissions to delete users", usrs, toks)
        ELSE IF token.sub = user_id
        THEN UserResponse(400, "Cannot delete your own account", usrs, toks)
        ELSE IF user_id \notin DOMAIN usrs
        THEN UserResponse(404, "User not found", usrs, toks)
        ELSE UserResponse(204, "", UserService_delete_user(usrs, user_id), toks)

\* PUT /users/{user_id}/status
update_user_status(usrs, toks, token, user_id, is_active) ==
    LET a == get_current_user(usrs, token)
    IN  IF a.status # 200 THEN Refused(a, usrs, toks)
        ELSE IF ~usrs[token.sub].is_admin
        THEN UserResponse(403, "Not enough permissions to update user status", usrs, toks)
        ELSE IF user_id \notin DOMAIN usrs
        THEN UserResponse(404, "User not found", usrs, toks)
        ELSE UserResponse(200, "",
                 UserService_update_user(usrs, user_id, <<is_active>>, NoRole),
                 toks)

\* ------------------------------------------------------------ db/session.py
\* A session of async_session_factory (autocommit = False, autoflush = False)
\* held by one request: the statement the request is at (pc), the tables as
\* the session's transaction sees them (tx_), the objects add() has put in
\* the session (pending), the rows still to be updated (todo), and the
\* committed tables as they were when the request began (before).
Session(op, pc, id, force, read_quantity, adjustment_type, quantity, tx_categories, tx_inventory, pending, todo, before) ==
    [op |-> op, pc |-> pc, id |-> id, force |-> force,
     read_quantity |-> read_quantity, adjustment_type |-> adjustment_type,
     quantity |-> quantity, tx_categories |-> tx_categories,
     tx_inventory |-> tx_inventory, pending |-> pending, todo |-> todo,
     before |-> before]

\* No request holds a session.
NoSession ==
    Session("none", "closed", 0, FALSE, 0, "", 0, <<>>, <<>>, <<>>, <<>>, <<>>)

\* Mutant: the session autocommits, every statement is written to the
\* committed table at once.
execute_autocommit(committed, tx, id, row) ==
    [committed |-> [committed EXCEPT ![id] = row],
     tx |-> [tx EXCEPT ![id] = row]]

\* session.execute(update(...).where(id == id).values(...)): the row is
\* written in the session's transaction, the committed table is not.
execute(committed, tx, id, row) ==
    [committed |-> committed, tx |-> [tx EXCEPT ![id] = row]]

\* session.commit(): the transaction's table becomes the committed one.
commit(committed, tx) == tx

\* session.rollback(): the transaction's writes are dropped.
rollback(committed, tx) == committed

\* The elements of a set of ids, in ascending order.
RECURSIVE InOrder(_)
InOrder(ids) ==
    IF ids = {} THEN <<>>
    ELSE LET least == CHOOSE i \in ids : \A j \in ids : i <= j
         IN  <<least>> \o InOrder(ids \ {least})

\* The ids _deactivate_category_tree(category_id) updates, in the order of
\* its UPDATE statements: each child's subtree, then the category itself.
\* (Children are taken by id; the code's ORDER BY name decides only the
\* order of these statements, not the rows they write.)
RECURSIVE DeactivationOrder(_, _)
RECURSIVE DeactivationOrderOfChildren(_, _)
DeactivationOrder(cats, category_id) ==
    DeactivationOrderOfChildren(cats,
        InOrder(get_child_categories(cats, category_id, FALSE)))
    \o <<category_id>>
DeactivationOrderOfChildren(cats, children) ==
    IF children = <<>> THEN <<>>
    ELSE DeactivationOrder(cats, Head(children))
         \o DeactivationOrderOfChildren(cats, Tail(children))

\* The clients whose requests are in flight at the same time, each with a
\* session of its own.
Clients == {1, 2}

\* A request in flight: the statement it is at (pc), its arguments, the
\* quantity its SELECT returned (read_quantity), whether its transaction
\* holds an UPDATE not yet committed (wrote), the row that UPDATE leaves
\* (row), the place of its commit among the commits (committed_at) and its
\* response (status).
Call(op, pc, id, adjustment_type, quantity, read_quantity, name, parent_id, wrote, row, committed_at, status) ==
    [op |-> op, pc |-> pc, id |-> id, adjustment_type |-> adjustment_type,
     quantity |-> quantity, read_quantity |-> read_quantity, name |-> name,
     parent_id |-> parent_id, wrote |-> wrote, row |-> row,
     committed_at |-> committed_at, status |-> status]

\* The client has made no request.
NoCall == Call("none", "idle", 0, "", 0, 0, "", 0, FALSE, <<>>, 0, 0)

\* Mutant: the UPDATE adds to the quantity of the row it writes.
update_values_of_row(read_quantity, row_quantity, adjustment_type, quantity) ==
    new_quantity(row_quantity, adjustment_type, quantity)

\* .values(quantity=new_quantity) of create_inventory_adjustment: the value
\* was computed from the quantity get_inventory returned, whatever the row
\* holds when the UPDATE runs.
update_values(read_quantity, row_quantity, adjustment_type, quantity) ==
    new_quantity(read_quantity, adjustment_type, quantity)

\* A row an UPDATE of another transaction has written is locked until that
\* transaction ends (read committed: the UPDATE of client c waits for it).
RowLocked(calls, tables, id, c) ==
    \E d \in Clients \ {c} :
        /\ calls[d].op \in tables /\ calls[d].id = id
        /\ calls[d].pc = "commit" /\ calls[d].wrote

\* The number of commits made so far.
Commits(calls) == Cardinality({d \in Clients : calls[d].committed_at > 0})

\* A call of would_create_circular_reference in progress: its arguments,
\* its locals current_id and visited, whether it has selected the parent of
\* a category it had selected before (repeated), and what it returned.
Walk(pc, category_id, new_parent_id, current_id, visited, repeated, result) ==
    [pc |-> pc, category_id |-> category_id, new_parent_id |-> new_parent_id,
     current_id |-> current_id, visited |-> visited, repeated |-> repeated,
     result |-> result]

\* No circular-reference check is in progress.
NoWalk == Walk("idle", 0, 0, 0, {}, FALSE, FALSE)

\* Mutant: the loop runs while there is a current_id.
loop_condition_unguarded(current_id, visited) == current_id # NoParent

\* while current_id and current_id not in visited
loop_condition(current_id, visited) ==
    current_id # NoParent /\ current_id \notin visited


\* ------------------------------------------------------------------ actions
\* What is kept of a handled request: the endpoint, the force flag of a
\* delete, and the response's status code and detail.
Request(op, force, r) ==
    [op |-> op, force |-> force, status |-> r.status, detail |-> r.detail]

NoRequest ==
    [op |-> "none", force |-> FALSE, status |-> 0, detail |-> ""]

Init ==
    /\ categories = <<>>
    /\ products = <<>>
    /\ purchase_orders = <<>>
    /\ shipments = <<>>
    /\ inventory = <<>>
    /\ inventory_adjustments = <<>>
    /\ inventory_counts = <<>>
    /\ session = NoSession
    /\ requests = [c \in Clients |-> NoCall]
    /\ users = <<>>
    /\ tokens = {}
    /\ caller = Carried(<<>>, NoToken)
    /\ walk = NoWalk
    /\ last = NoRequest

\* POST /categories/ while the table holds fewer than n rows.
CreateCategoryUpTo(n) ==
    /\ Len(categories) < n
    /\ \E name \in Names, parent_id \in CategoryIds \cup {NoParent},
          is_active \in BOOLEAN :
          LET r == create_category(categories, name, parent_id, is_active)
          IN  /\ categories' = r.categories
              /\ last' = Request("create_category", FALSE, r)
    /\ UNCHANGED <<products, purchase_orders, shipments, inventory_vars, session, requests, user_vars, walk>>

UpdateCategory ==
    /\ \E category_id \in CategoryIds, name \in Names \cup {NoName},
          parent_id \in CategoryIds \cup {NoParent}, is_active \in OptBool :
          LET r == update_category(categories, category_id, name, parent_id,
                                   is_active)
          IN  /\ categories' = r.categories
              /\ last' = Request("update_category", FALSE, r)
    /\ UNCHANGED <<products, purchase_orders, shipments, inventory_vars, session, requests, user_vars, walk>>

DeleteCategory ==
    /\ \E category_id \in CategoryIds, force \in BOOLEAN :
          LET r == delete_category(categories, products, category_id, force)
          IN  /\ categories' = r.categories
              /\ last' = Request("delete_category", force, r)
    /\ UNCHANGED <<products, purchase_orders, shipments, inventory_vars, session, requests, user_vars, walk>>

CreateProduct ==
    /\ Len(products) < MaxProducts
    /\ \E category_id \in DOMAIN categories :
          products' = create_product(products, category_id)
    /\ UNCHANGED <<categories, purchase_orders, shipments, inventory_vars, session, last, requests, user_vars, walk>>

CreateCategory == CreateCategoryUpTo(MaxCategories)

CreateCategoryBesideProducts == CreateCategoryUpTo(MaxCategoriesWithProducts)

\* The category endpoints alone.
NextCategory ==
    \/ CreateCategory
    \/ UpdateCategory
    \/ DeleteCategory

SpecCategory == Init /\ [][NextCategory]_vars

\* The category endpoints beside the product endpoint.
NextCategoryProducts ==
    \/ CreateCategoryBesideProducts
    \/ UpdateCategory
    \/ DeleteCategory
    \/ CreateProduct

SpecCategoryProducts == Init /\ [][NextCategoryProducts]_vars

\* Ids of purchase orders a request may name.
OrderIds == 1..MaxOrders

CreatePurchaseOrder ==
    /\ Len(purchase_orders) < MaxOrders
    /\ \E status \in StatusInputs \cup {NoStatus}, date \in Dates,
          items \in ItemLists, current_user \in UserIds :
          LET r == create_purchase_order(purchase_orders, status, date, items,
                                         current_user)
          IN  /\ purchase_orders' = r.purchase_orders
              /\ last' = Request("create_purchase_order", FALSE, r)
    /\ UNCHANGED <<categories, products, shipments, inventory_vars, session, requests, user_vars, walk>>

UpdatePurchaseOrder ==
    /\ \E po_id \in OrderIds, status \in StatusInputs \cup {NoStatus},
          date \in Dates :
          LET r == update_purchase_order(purchase_orders, po_id, status, date)
          IN  /\ purchase_orders' = r.purchase_orders
              /\ last' = Request("update_purchase_order", FALSE, r)
    /\ UNCHANGED <<categories, products, shipments, inventory_vars, session, requests, user_vars, walk>>

ApprovePurchaseOrder ==
    /\ \E po_id \in OrderIds, status \in ApprovalStatus, current_user \in UserIds :
          /\ po_id \in DOMAIN purchase_orders
                => Len(purchase_orders[po_id].approvals) < MaxApprovals
          /\ LET r == approve_purchase_order(purchase_orders, po_id, status,
                                             current_user)
             IN  /\ purchase_orders' = r.purchase_orders
                 /\ last' = Request("approve_purchase_order", FALSE, r)
    /\ UNCHANGED <<categories, products, shipments, inventory_vars, session, requests, user_vars, walk>>

CancelPurchaseOrder ==
    /\ \E po_id \in OrderIds :
          LET r == cancel_purchase_order(purchase_orders, po_id)
          IN  /\ purchase_orders' = r.purchase_orders
              /\ last' = Request("cancel_purchase_order", FALSE, r)
    /\ UNCHANGED <<categories, products, shipments, inventory_vars, session, requests, user_vars, walk>>

\* The purchase-order endpoints.
NextPurchaseOrder ==
    \/ CreatePurchaseOrder
    \/ UpdatePurchaseOrder
    \/ ApprovePurchaseOrder
    \/ CancelPurchaseOrder

SpecPurchaseOrder == Init /\ [][NextPurchaseOrder]_vars

CreateShipment ==
    /\ Len(shipments) < MaxShipments
    /\ \E purchase_order_id \in OrderIds,
          status \in ShipmentStatusInputs \cup {NoStatus},
          items \in ShipmentItemLists :
          LET r == create_shipment(shipments, purchase_order_id, status, items)
          IN  /\ shipments' = r.shipments
              /\ last' = Request("create_shipment", FALSE, r)
    /\ UNCHANGED <<categories, products, purchase_orders, inventory_vars, session, requests, user_vars, walk>>

\* update_shipment_status while the history holds fewer than n entries.
UpdateShipmentStatusUpTo(n) ==
    /\ \E shipment_id \in ShipmentIds, status \in ShipmentStatusInputs :
          /\ shipment_id \in DOMAIN shipments
                => Len(shipments[shipment_id].status_history) < n
          /\ LET r == update_shipment_status(shipments, shipment_id, status)
             IN  /\ shipments' = r.shipments
                 /\ last' = Request("update_shipment_status", FALSE, r)
    /\ UNCHANGED <<categories, products, purchase_orders, inventory_vars, session, requests, user_vars, walk>>

UpdateShipmentStatus == UpdateShipmentStatusUpTo(MaxStatusHistory)

UpdateShipmentStatusFollowed == UpdateShipmentStatusUpTo(MaxStatusHistoryFollowed)

UpdateShipment ==
    /\ \E shipment_id \in ShipmentIds,
          status \in ShipmentStatusInputs \cup {NoStatus} :
          LET r == update_shipment(shipments, shipment_id, status)
          IN  /\ shipments' = r.shipments
              /\ last' = Request("update_shipment", FALSE, r)
    /\ UNCHANGED <<categories, products, purchase_orders, inventory_vars, session, requests, user_vars, walk>>

\* Purchase orders and the shipments that deliver them.
NextShipment ==
    \/ CreatePurchaseOrder
    \/ UpdatePurchaseOrder
    \/ CreateShipment
    \/ UpdateShipmentStatus

SpecShipment == Init /\ [][NextShipment]_vars

\* A shipment, its updates and its status updates.
NextShipmentHistory ==
    \/ CreateShipment
    \/ UpdateShipment
    \/ UpdateShipmentStatusFollowed

SpecShipmentHistory == Init /\ [][NextShipmentHistory]_vars

\* The inventory tables become those of result r of operation op.
InventoryBecomes(op, r) ==
    /\ inventory' = r.inventory
    /\ inventory_adjustments' = r.inventory_adjustments
    /\ inventory_counts' = r.inventory_counts
    /\ last' = Request(op, FALSE, r)
    /\ UNCHANGED <<categories, products, purchase_orders, shipments, session, requests, user_vars, walk>>

\* Every stored quantity of result r is within the model's range.
InRange(r) ==
    \A i \in DOMAIN r.inventory :
        /\ r.inventory[i].quantity <= MaxQuantity
        /\ r.inventory[i].quantity >= -MaxQuantity

CreateInventory ==
    /\ Len(inventory) < MaxInventory
    /\ \E quantity \in InventoryQuantities :
          InventoryBecomes("create_inventory",
              create_inventory(inventory, inventory_adjustments,
                               inventory_counts, quantity))

UpdateInventory ==
    \E inventory_id \in InventoryIds, quantity \in InventoryQuantities :
        InventoryBecomes("update_inventory",
            update_inventory(inventory, inventory_adjustments,
                             inventory_counts, inventory_id, quantity))

CreateInventoryAdjustment ==
    \E inventory_id \in InventoryIds, adjustment_type \in AdjustmentTypes,
       quantity \in AdjustmentQuantities, created_by \in InventoryUsers :
        LET r == create_inventory_adjustment(inventory, inventory_adjustments,
                     inventory_counts, inventory_id, adjustment_type, quantity,
                     created_by)
        IN  /\ Len(r.inventory_adjustments) <= MaxAdjustments
            /\ InRange(r)
            /\ InventoryBecomes("create_inventory_adjustment", r)

CreateInventoryCount ==
    \E inventory_id \in InventoryIds, counted_quantity \in CountedQuantities,
       created_by \in InventoryUsers, now \in Times :
        LET r == create_inventory_count(inventory, inventory_adjustments,
                     inventory_counts, inventory_id, counted_quantity,
                     created_by, now)
        IN  /\ Len(r.inventory_counts) <= MaxCounts
            /\ InventoryBecomes("create_inventory_count", r)

\* The inventory service's operations.
NextInventory ==
    \/ CreateInventory
    \/ UpdateInventory
    \/ CreateInventoryAdjustment
    \/ CreateInventoryCount

SpecInventory == Init /\ [][NextInventory]_vars

\* ------------------------------------------- requests, statement by statement
\* The committed tables the stepwise requests write.
Committed ==
    [categories |-> categories, inventory |-> inventory,
     inventory_adjustments |-> inventory_adjustments]

\* A request handled in one step while no session is open.
CreateCategoryBetweenSessions ==
    /\ session = NoSession
    /\ CreateCategoryUpTo(MaxCategoriesInSession)

CreateInventoryBetweenSessions ==
    /\ session = NoSession
    /\ CreateInventory

\* DELETE /categories/{category_id}: the endpoint's checks, then
\* CategoryService.delete_category up to its first UPDATE.
BeginDeleteCategory ==
    /\ session = NoSession
    /\ \E category_id \in CategoryIds, force \in BOOLEAN :
          LET r == delete_category(categories, products, category_id, force)
              todo == (IF force
                       THEN DeactivationOrder(categories, category_id)
                       ELSE <<>>) \o <<category_id>>
          IN  IF r.status # 204
              THEN /\ last' = Request("delete_category", force, r)
                   /\ UNCHANGED session
              ELSE /\ session' = Session("delete_category", "execute",
                                      category_id, force, 0, "", 0, categories,
                                      <<>>, <<>>, todo, Committed)
                   /\ UNCHANGED last
    /\ UNCHANGED <<categories, products, purchase_orders, shipments, inventory_vars, requests, user_vars, walk>>

\* One UPDATE ... SET is_active = False of delete_category or of
\* _deactivate_category_tree.
ExecuteDeleteCategory ==
    /\ session.op = "delete_category" /\ session.pc = "execute"
    /\ LET id == Head(session.todo)
           e == execute(categories, session.tx_categories, id,
                        [session.tx_categories[id] EXCEPT !.is_active = FALSE])
       IN  /\ categories' = e.committed
           /\ session' = [session EXCEPT
                             !.tx_categories = e.tx,
                             !.todo = Tail(@),
                             !.pc = IF Tail(session.todo) = <<>>
                                    THEN "commit" ELSE "execute"]
    /\ UNCHANGED <<products, purchase_orders, shipments, inventory_vars, last, requests, user_vars, walk>>

\* delete_category's commit; the service returns True and the endpoint 204.
CommitDeleteCategory ==
    /\ session.op = "delete_category" /\ session.pc = "commit"
    /\ categories' = commit(categories, session.tx_categories)
    /\ session' = NoSession
    /\ last' = Request("delete_category", session.force,
                       Response(204, "", categories'))
    /\ UNCHANGED <<products, purchase_orders, shipments, inventory_vars, requests, user_vars, walk>>

\* InventoryService.create_inventory_adjustment up to get_inventory.
BeginInventoryAdjustment ==
    /\ session = NoSession
    /\ Len(inventory_adjustments) < MaxAdjustments
    /\ \E inventory_id \in InventoryIds, adjustment_type \in AdjustmentTypes,
          quantity \in AdjustmentQuantities :
          IF inventory_id \notin DOMAIN inventory
          THEN /\ last' = Request("create_inventory_adjustment", FALSE,
                               [status |-> 500, detail |-> "Inventory not found"])
               /\ UNCHANGED session
          ELSE /\ session' = Session("create_inventory_adjustment", "add",
                                  inventory_id, FALSE,
                                  inventory[inventory_id].quantity,
                                  adjustment_type, quantity, <<>>, inventory,
                                  <<>>, <<>>, Committed)
               /\ UNCHANGED last
    /\ UNCHANGED <<categories, products, purchase_orders, shipments, inventory_vars, requests, user_vars, walk>>

\* self.db.add(adjustment)
AddInventoryAdjustment ==
    /\ session.op = "create_inventory_adjustment" /\ session.pc = "add"
    /\ \E created_by \in InventoryUsers :
          session' = [session EXCEPT
                         !.pending = <<[inventory_id |-> session.id,
                                        adjustment_type |-> session.adjustment_type,
                                        quantity |-> session.quantity,
                                        created_by |-> created_by,
                                        previous_quantity |-> session.read_quantity]>>,
                         !.pc = "execute"]
    /\ UNCHANGED <<categories, products, purchase_orders, shipments, inventory_vars, last, requests, user_vars, walk>>

\* UPDATE inventory SET quantity = new_quantity
ExecuteInventoryAdjustment ==
    /\ session.op = "create_inventory_adjustment" /\ session.pc = "execute"
    /\ LET e == execute(inventory, session.tx_inventory, session.id,
                        [session.tx_inventory[session.id] EXCEPT !.quantity =
                            new_quantity(session.read_quantity,
                                         session.adjustment_type,
                                         session.quantity)])
       IN  /\ inventory' = e.committed
           /\ session' = [session EXCEPT !.tx_inventory = e.tx, !.pc = "commit"]
    /\ UNCHANGED <<categories, products, purchase_orders, shipments, inventory_adjustments, inventory_counts, last, requests, user_vars, walk>>

\* create_inventory_adjustment's commit: the pending record is flushed and
\* the transaction committed.
CommitInventoryAdjustment ==
    /\ session.op = "create_inventory_adjustment" /\ session.pc = "commit"
    /\ inventory' = commit(inventory, session.tx_inventory)
    /\ inventory_adjustments' = inventory_adjustments \o session.pending
    /\ session' = [session EXCEPT !.pc = "refresh"]
    /\ UNCHANGED <<categories, products, purchase_orders, shipments, inventory_counts, last, requests, user_vars, walk>>

\* self.db.refresh(adjustment), and the return.
RefreshInventoryAdjustment ==
    /\ session.op = "create_inventory_adjustment" /\ session.pc = "refresh"
    /\ session' = NoSession
    /\ last' = Request("create_inventory_adjustment", FALSE,
                       [status |-> 200, detail |-> ""])
    /\ UNCHANGED <<categories, products, purchase_orders, shipments, inventory_vars, requests, user_vars, walk>>

\* The statement the request is at raises (the database fails it); the
\* exception leaves the service and the session is rolled back (the except
\* clause of the category service, get_db for the others).  The response
\* names the statement that failed.
StatementFails ==
    /\ session.pc \in {"add", "execute", "commit", "refresh"}
    /\ categories' = IF session.op = "delete_category"
                     THEN rollback(categories, session.tx_categories)
                     ELSE categories
    /\ inventory' = IF session.op = "create_inventory_adjustment"
                    THEN rollback(inventory, session.tx_inventory)
                    ELSE inventory
    /\ session' = NoSession
    /\ last' = Request(session.op, session.force,
                       [status |-> 500, detail |-> session.pc])
    /\ UNCHANGED <<products, purchase_orders, shipments, inventory_adjustments, inventory_counts, requests, user_vars, walk>>

\* Force-delete and adjust, statement by statement, one request at a time.
NextSession ==
    \/ CreateCategoryBetweenSessions
    \/ CreateInventoryBetweenSessions
    \/ BeginDeleteCategory
    \/ ExecuteDeleteCategory
    \/ CommitDeleteCategory
    \/ BeginInventoryAdjustment
    \/ AddInventoryAdjustment
    \/ ExecuteInventoryAdjustment
    \/ CommitInventoryAdjustment
    \/ RefreshInventoryAdjustment
    \/ StatementFails

SpecSession == Init /\ [][NextSession]_vars

\* --------------------------------------- requests in flight at the same time
InventoryOps == {"create_inventory_adjustment", "create_inventory_count"}

\* get_inventory of create_inventory_adjustment or create_inventory_count:
\* the SELECT reads the committed row.  ValueError when there is none.  The
\* record the service then builds and add()s stays in the session until the
\* commit.
GetInventory(c) ==
    /\ requests[c] = NoCall
    /\ \E op \in InventoryOps, inventory_id \in InventoryIds,
          adjustment_type \in AdjustmentTypes, quantity \in CountedQuantities :
          /\ op = "create_inventory_adjustment" => quantity \in AdjustmentQuantities
          /\ op = "create_inventory_count" => adjustment_type = "addition"
          /\ requests' = [requests EXCEPT ![c] =
                IF inventory_id \notin DOMAIN inventory
                THEN Call(op, "returned", inventory_id, adjustment_type,
                          quantity, 0, "", 0, FALSE, <<>>, 0, 500)
                ELSE Call(op, "execute", inventory_id, adjustment_type,
                          quantity, inventory[inventory_id].quantity, "", 0,
                          FALSE, <<>>, 0, 0)]
    /\ UNCHANGED <<categories, products, purchase_orders, shipments, inventory_vars, session, last, user_vars, walk>>

\* The UPDATE of the inventory row (a count whose difference is 0 has none).
\* It waits while another transaction holds the row, and sets the named
\* columns of the row as it then is.
ExecuteInventory(c) ==
    /\ requests[c].op \in InventoryOps /\ requests[c].pc = "execute"
    /\ LET call == requests[c]
           current == inventory[call.id]
       IN  IF call.op = "create_inventory_count"
              /\ call.quantity - call.read_quantity = 0
           THEN requests' = [requests EXCEPT ![c].pc = "commit"]
           ELSE /\ ~RowLocked(requests, InventoryOps, call.id, c)
                /\ \E now \in Times :
                      LET row == IF call.op = "create_inventory_count"
                                 THEN [quantity |-> call.quantity,
                                       last_count_date |-> now]
                                 ELSE [current EXCEPT !.quantity =
                                          update_values(call.read_quantity,
                                              current.quantity,
                                              call.adjustment_type,
                                              call.quantity)]
                      IN  /\ row.quantity <= MaxQuantity
                          /\ row.quantity >= -MaxQuantity
                          /\ requests' = [requests EXCEPT ![c] =
                                [call EXCEPT !.pc = "commit", !.wrote = TRUE,
                                             !.row = row]]
    /\ UNCHANGED <<categories, products, purchase_orders, shipments, inventory_vars, session, last, user_vars, walk>>

\* The commit: the record is inserted, the transaction's UPDATE becomes the
\* committed row, and the service returns.
CommitInventory(c) ==
    /\ requests[c].op \in InventoryOps /\ requests[c].pc = "commit"
    /\ LET call == requests[c]
       IN  /\ inventory' = IF call.wrote
                           THEN [inventory EXCEPT ![call.id] = call.row]
                           ELSE inventory
           /\ inventory_adjustments' =
                 IF call.op = "create_inventory_adjustment"
                 THEN Append(inventory_adjustments,
                          [inventory_id |-> call.id,
                           adjustment_type |-> call.adjustment_type,
                           quantity |-> call.quantity,
                           created_by |-> c,
                           previous_quantity |-> call.read_quantity])
                 ELSE inventory_adjustments
           /\ inventory_counts' =
                 IF call.op = "create_inventory_count"
                 THEN Append(inventory_counts,
                          [inventory_id |-> call.id,
                           counted_quantity |-> call.quantity,
                           created_by |-> c,
                           system_quantity |-> call.read_quantity,
                           difference |-> call.quantity - call.read_quantity])
                 ELSE inventory_counts
           /\ requests' = [requests EXCEPT ![c] =
                 [call EXCEPT !.pc = "returned", !.wrote = FALSE,
                              !.committed_at = Commits(requests) + 1,
                              !.status = 200]]
    /\ UNCHANGED <<categories, products, purchase_orders, shipments, session, last, user_vars, walk>>

\* Two clients adjusting and counting inventory at the same time.
NextConcurrentInventory ==
    \/ CreateInventory
    \/ \E c \in Clients : GetInventory(c)
    \/ \E c \in Clients : ExecuteInventory(c)
    \/ \E c \in Clients : CommitInventory(c)

SpecConcurrentInventory == Init /\ [][NextConcurrentInventory]_vars

\* ------------------------------------------------------------------- users
\* The users table holds the administrator the deployment was provisioned
\* with: no endpoint writes is_admin.
InitUsers ==
    /\ categories = <<>>
    /\ products = <<>>
    /\ purchase_orders = <<>>
    /\ shipments = <<>>
    /\ inventory = <<>>
    /\ inventory_adjustments = <<>>
    /\ inventory_counts = <<>>
    /\ session = NoSession
    /\ requests = [c \in Clients |-> NoCall]
    /\ users = <<User("admin@x", get_password_hash("p"), "admin", TRUE, TRUE)>>
    /\ tokens = {}
    /\ caller = Carried(<<>>, NoToken)
    /\ walk = NoWalk
    /\ last = NoRequest

\* The users table and the issued tokens become those of response r to a
\* request of kind op that carried token.
UsersBecome(op, token, r) ==
    /\ users' = r.users
    /\ tokens' = r.tokens
    /\ caller' = Carried(users, token)
    /\ last' = Request(op, FALSE, r)
    /\ UNCHANGED <<categories, products, purchase_orders, shipments, inventory_vars, session, requests, walk>>

Register ==
    /\ Len(users) < MaxUsers
    /\ \E email \in Emails, role \in RoleInputs :
          UsersBecome("register", NoToken,
                      register(users, tokens, email, "p", role))

Login ==
    \E email \in Emails, password \in Passwords :
        UsersBecome("login", NoToken, login(users, tokens, email, password))

UpdateUserMe ==
    \E token \in TokenInputs(tokens), is_active \in OptBool,
       role \in RoleInputs \cup {NoRole} :
        UsersBecome("update_user_me", token,
                    update_user_me(users, tokens, token, is_active, role))

CreateUser ==
    \E token \in TokenInputs(tokens), email \in Emails, role \in RoleInputs,
       is_active \in BOOLEAN :
        LET r == create_user(users, tokens, token, email, "p", role, is_active)
        IN  /\ Len(r.users) <= MaxUsers
            /\ UsersBecome("create_user", token, r)

UpdateUser ==
    \E token \in TokenInputs(tokens), user_id \in UserRowIds,
       is_active \in OptBool, role \in RoleInputs \cup {NoRole} :
        UsersBecome("update_user", token,
                    update_user(users, tokens, token, user_id, is_active, role))

DeleteUser ==
    \E token \in TokenInputs(tokens), user_id \in UserRowIds :
        UsersBecome("delete_user", token,
                    delete_user(users, tokens, token, user_id))

UpdateUserStatus ==
    \E token \in TokenInputs(tokens), user_id \in UserRowIds,
       is_active \in BOOLEAN :
        UsersBecome("update_user_status", token,
                    update_user_status(users, tokens, token, user_id, is_active))

\* The authentication and user endpoints.
NextUsers ==
    \/ Register
    \/ Login
    \/ UpdateUserMe
    \/ CreateUser
    \/ UpdateUser
    \/ DeleteUser
    \/ UpdateUserStatus

SpecUsers == InitUsers /\ [][NextUsers]_vars

\* ------------------------------------------- the circular-reference check
\* The category tables of MaxMalformed rows with any parent_id in each row:
\* trees, self-references, cycles and parents that are no stored row.
MalformedTables ==
    {[i \in 1..MaxMalformed |-> Category("a", parent[i], 0, "a", TRUE)] :
        parent \in [1..MaxMalformed -> 0..(MaxMalformed + 1)]}

InitMalformed ==
    /\ categories \in MalformedTables
    /\ products = <<>>
    /\ purchase_orders = <<>>
    /\ shipments = <<>>
    /\ inventory = <<>>
    /\ inventory_adjustments = <<>>
    /\ inventory_counts = <<>>
    /\ session = NoSession
    /\ requests = [c \in Clients |-> NoCall]
    /\ users = <<>>
    /\ tokens = {}
    /\ caller = Carried(<<>>, NoToken)
    /\ walk = NoWalk
    /\ last = NoRequest

\* would_create_circular_reference(category_id, new_parent_id) is called:
\* current_id = new_parent_id, visited = set().
BeginWalk ==
    /\ walk.pc \in {"idle", "done"}
    /\ \E category_id \in 1..MaxMalformed,
          new_parent_id \in 1..(MaxMalformed + 1) :
          walk' = Walk("loop", category_id, new_parent_id, new_parent_id, {},
                       FALSE, FALSE)
    /\ UNCHANGED <<categories, products, purchase_orders, shipments, inventory_vars, session, requests, user_vars, last>>

\* One test of the loop condition and, when it holds, one pass of the body:
\* return True at category_id, else add current_id to visited and select
\* its parent_id (None when there is no such row).
WalkStep ==
    /\ walk.pc = "loop"
    /\ walk' =
          IF ~loop_condition(walk.current_id, walk.visited)
          THEN [walk EXCEPT !.pc = "done", !.result = FALSE]
          ELSE IF walk.current_id = walk.category_id
          THEN [walk EXCEPT !.pc = "done", !.result = TRUE]
          ELSE [walk EXCEPT
                   !.repeated = @ \/ walk.current_id \in walk.visited,
                   !.visited = @ \cup {walk.current_id},
                   !.current_id = IF walk.current_id \in DOMAIN categories
                                  THEN categories[walk.current_id].parent_id
                                  ELSE NoParent]
    /\ UNCHANGED <<categories, products, purchase_orders, shipments, inventory_vars, session, requests, user_vars, last>>

NextCircular ==
    \/ BeginWalk
    \/ WalkStep

\* The check on any table, each step of its loop taken in the end.
SpecCircular ==
    InitMalformed /\ [][NextCircular]_vars /\ WF_vars(WalkStep)

\* ------------------------------------ category updates at the same time
CreateCategoryBesideRequests == CreateCategoryUpTo(MaxCategoriesInSession)

\* PUT /categories/{category_id} with a parent_id alone, up to the call of
\* the service: the endpoint's checks (the row, the parent, the
\* circular-reference walk) read the committed table.
CheckUpdateCategory(c) ==
    /\ requests[c] = NoCall
    /\ \E category_id \in 1..MaxCategoriesInSession,
          parent_id \in 1..MaxCategoriesInSession :
          LET r == update_category(categories, category_id, NoName, parent_id,
                                   <<>>)
          IN  requests' = [requests EXCEPT ![c] =
                 IF r.status # 200
                 THEN Call("update_category", "returned", category_id, "", 0,
                           0, NoName, parent_id, FALSE, <<>>, 0, r.status)
                 ELSE Call("update_category", "execute", category_id, "", 0,
                           0, NoName, parent_id, FALSE, <<>>, 0, 0)]
    /\ UNCHANGED <<categories, products, purchase_orders, shipments, inventory_vars, session, user_vars, walk, last>>

\* CategoryService.update_category up to its UPDATE: the row and the parent
\* are read, level and path computed, and the row is written in the
\* transaction.  The UPDATE waits while another transaction holds the row.
ExecuteUpdateCategory(c) ==
    /\ requests[c].op = "update_category" /\ requests[c].pc = "execute"
    /\ ~RowLocked(requests, {"update_category"}, requests[c].id, c)
    /\ LET call == requests[c]
           after == CategoryService_update_category(categories, call.id,
                        call.name, call.parent_id, <<>>)
       IN  requests' = [requests EXCEPT ![c] =
              [call EXCEPT !.pc = "commit", !.wrote = TRUE,
                           !.row = after[call.id]]]
    /\ UNCHANGED <<categories, products, purchase_orders, shipments, inventory_vars, session, user_vars, walk, last>>

\* The commit of update_category, and the 200 response.
CommitUpdateCategory(c) ==
    /\ requests[c].op = "update_category" /\ requests[c].pc = "commit"
    /\ categories' = [categories EXCEPT ![requests[c].id] = requests[c].row]
    /\ requests' = [requests EXCEPT ![c] =
          [@ EXCEPT !.pc = "returned", !.wrote = FALSE,
                    !.committed_at = Commits(requests) + 1, !.status = 200]]
    /\ UNCHANGED <<products, purchase_orders, shipments, inventory_vars, session, user_vars, walk, last>>

\* Two clients re-parenting categories at the same time.
NextConcurrentCategory ==
    \/ CreateCategoryBesideRequests
    \/ \E c \in Clients : CheckUpdateCategory(c)
    \/ \E c \in Clients : ExecuteUpdateCategory(c)
    \/ \E c \in Clients : CommitUpdateCategory(c)

SpecConcurrentCategory == Init /\ [][NextConcurrentCategory]_vars

\* ------------------------------------------------------- the tree, as read
\* The k-th category up the parent_id chain from i (NoParent past the root).
RECURSIVE Ancestor(_, _, _)
Ancestor(cats, i, k) ==
    IF k = 0 THEN i
    ELSE IF i \notin DOMAIN cats THEN NoParent
    ELSE Ancestor(cats, cats[i].parent_id, k - 1)

\* c and every descendant of c.
SubtreeOf(cats, c) ==
    {d \in DOMAIN cats : \E k \in 0..Len(cats) : Ancestor(cats, d, k) = c}

\* The depth of d below c is at least 2.
DeepBelow(cats, c, d) ==
    /\ d \in DOMAIN cats
    /\ cats[d].parent_id \in DOMAIN cats
    /\ cats[d].parent_id # c
    /\ cats[cats[d].parent_id].parent_id = c

CircularDetail == "Cannot set parent category: would create circular reference"
NameExistsDetail == "Category name already exists in this parent category"
ParentNotFoundDetail == "Parent category not found"

\* ------------------------------------------------------------------ claims

\* C1: after any sequence of category create, update and delete requests,
\* every stored category has level 0 exactly when it has no parent, and
\* otherwise its level is its parent's level plus one.
C1_LevelFollowsParent ==
    \A i \in DOMAIN categories :
        LET c == categories[i]
        IN  /\ (c.level = 0) <=> (c.parent_id = NoParent)
            /\ c.parent_id \in DOMAIN categories
                   => c.level = categories[c.parent_id].level + 1

\* C2: after any sequence of category create and update requests, every
\* stored category's path is its parent's path, the separator and its own
\* name when it has a parent, and its own name when it is a root.
C2_PathFollowsParent ==
    \A i \in DOMAIN categories :
        LET c == categories[i]
        IN  c.path = IF c.parent_id \in DOMAIN categories
                     THEN categories[c.parent_id].path \o " / " \o c.name
                     ELSE c.name

\* C3: starting from an empty store, the parent_id relation stays an acyclic
\* forest: no category reaches itself by following parent_id one or more times.
C3_AcyclicForest ==
    \A i \in DOMAIN categories :
        \A k \in 1..Len(categories) : Ancestor(categories, i, k) # i

\* C3 witness: an accepted update has left a category under a parent that was
\* created after it (only a re-parent does that), in a chain of three.
C3_Witness ==
    /\ last.op = "update_category" /\ last.status = 200
    /\ \E c, d \in DOMAIN categories :
          /\ DeepBelow(categories, c, d)
          /\ \E i \in DOMAIN categories : categories[i].parent_id > i

C5_ForceDeleteDeactivatesSubtree ==
    \A c \in DOMAIN categories :
        LET r == delete_category(categories, products, c, TRUE)
        IN  /\ r.status = 204
            /\ DOMAIN r.categories = DOMAIN categories
            /\ \A d \in DOMAIN categories :
                  IF d \in SubtreeOf(categories, c)
                  THEN r.categories[d] =
                           [categories[d] EXCEPT !.is_active = FALSE]
                  ELSE r.categories[d] = categories[d]

\* C5 witness: a forced delete has succeeded in a store where a category, its
\* child and its grandchild are all inactive.
C5_Witness ==
    /\ last.op = "delete_category" /\ last.force /\ last.status = 204
    /\ \E c, d \in DOMAIN categories :
          /\ DeepBelow(categories, c, d)
          /\ \A e \in SubtreeOf(categories, c) : ~categories[e].is_active

\* C6: delete(C, force=false) fails and leaves the store as it was exactly
\* when C has an active child or an associated product; otherwise (also when
\* all of C's children are inactive) it succeeds and sets only C.is_active
\* to false.
C6_DeleteBlockedByActiveChildOrProduct ==
    \A c \in DOMAIN categories :
        LET r == delete_category(categories, products, c, FALSE)
            blocked ==
                \/ \E d \in DOMAIN categories :
                      categories[d].parent_id = c /\ categories[d].is_active
                \/ \E p \in DOMAIN products : products[p] = c
        IN  IF blocked
            THEN r.status = 400 /\ r.categories = categories
            ELSE /\ r.status = 204
                 /\ r.categories = [categories EXCEPT ![c].is_active = FALSE]

\* C7: a create whose parent_id resolves to no stored category fails with the
\* parent-not-found error and adds no category, and no stored category has a
\* parent_id that names a category that was never stored.
C7_CreateNeedsStoredParent ==
    /\ \A i \in DOMAIN categories :
          categories[i].parent_id \in DOMAIN categories \cup {NoParent}
    /\ \A parent_id \in CategoryIds \ DOMAIN categories :
          \A name \in Names, is_active \in BOOLEAN :
              LET r == create_category(categories, name, parent_id, is_active)
              IN  /\ r.status = 400
                  /\ r.detail = ParentNotFoundDetail
                  /\ r.categories = categories

\* C7 witness: a create was refused for its parent in a store that holds
\* categories with and without a parent.
C7_Witness ==
    /\ last.op = "create_category" /\ last.status = 400
    /\ last.detail = ParentNotFoundDetail
    /\ \E i, j \in DOMAIN categories :
          categories[i].parent_id = j /\ categories[j].parent_id = NoParent

\* The sum of total_price over stored items.
RECURSIVE SumTotalPrice(_)
SumTotalPrice(items) ==
    IF items = <<>> THEN 0
    ELSE items[1].total_price + SumTotalPrice(Tail(items))

\* The order the last create stored.
Created == purchase_orders[Len(purchase_orders)]
JustCreated == last.op = "create_purchase_order" /\ last.status = 201

\* C8: a purchase order is in status draft right after create, whatever the
\* create request contains (the order and its items are written by one
\* commit, one step here, so they become visible together).
C8_CreatedAsDraft ==
    JustCreated => Created.status = "draft"

\* C9: right after create, the order's total_amount is the sum of its items'
\* total_price, and each item's total_price is quantity * unit_price (items
\* 10 @ 5 and 5 @ 20 give 150).
C9_TotalIsSumOfItems ==
    JustCreated =>
        /\ \A i \in DOMAIN Created.items :
              Created.items[i].total_price =
                  Created.items[i].quantity * Created.items[i].unit_price
        /\ Created.total_amount = SumTotalPrice(Created.items)

\* C10: an update of a purchase order whose status is ordered,
\* partially_received, received or cancelled fails (400, cannot update in
\* current status) and leaves every field of the order unchanged.
C10_UpdateRefusedOnceOrdered ==
    \A po_id \in DOMAIN purchase_orders :
        purchase_orders[po_id].status \in
            {"ordered", "partially_received", "received", "cancelled"}
        => \A status \in StatusInputs \cup {NoStatus}, date \in Dates :
              LET r == update_purchase_order(purchase_orders, po_id, status, date)
              IN  /\ r.status = 400
                  /\ r.detail = "Cannot update purchase order in current status"
                  /\ r.purchase_orders = purchase_orders

\* C10 witness: an update was refused for the status of an order with items
\* that an earlier update had moved to status ordered.
C10_Witness ==
    /\ last.op = "update_purchase_order" /\ last.status = 400
    /\ last.detail = "Cannot update purchase order in current status"
    /\ \E po_id \in DOMAIN purchase_orders :
          /\ purchase_orders[po_id].status = "ordered"
          /\ Len(purchase_orders[po_id].items) = 2

\* C11: an update of an existing purchase order is accepted exactly when its
\* current status is draft or pending_approval.
C11_UpdateAcceptedIffEditable ==
    \A po_id \in DOMAIN purchase_orders :
        \A status \in StatusInputs \cup {NoStatus}, date \in Dates :
            LET r == update_purchase_order(purchase_orders, po_id, status, date)
            IN  (r.status = 200) <=>
                    purchase_orders[po_id].status \in {"draft", "pending_approval"}

\* The edges of the purchase-order lifecycle.
LifecycleEdges ==
    {<<"draft", "pending_approval">>, <<"pending_approval", "approved">>,
     <<"approved", "ordered">>, <<"ordered", "partially_received">>,
     <<"ordered", "received">>, <<"partially_received", "received">>}
    \cup {<<s, "cancelled">> : s \in PurchaseOrderStatus \ {"received", "cancelled"}}

\* C12: a purchase order's status is always one of the seven lifecycle
\* values, and every change of a stored order's status is an edge of the
\* lifecycle (so none leaves received or cancelled).
C12_StatusFollowsLifecycle ==
    /\ [](\A i \in DOMAIN purchase_orders :
              purchase_orders[i].status \in PurchaseOrderStatus)
    /\ [][\A i \in DOMAIN purchase_orders :
              purchase_orders'[i].status # purchase_orders[i].status
                  => <<purchase_orders[i].status, purchase_orders'[i].status>>
                         \in LifecycleEdges]_vars

C14_CancelRefusedOnTerminal ==
    \A po_id \in DOMAIN purchase_orders :
        LET c == cancel_purchase_order(purchase_orders, po_id)
        IN  IF purchase_orders[po_id].status \in {"received", "cancelled"}
            THEN c.status >= 400 /\ c.purchase_orders = purchase_orders
            ELSE /\ c.status = 200
                 /\ c.purchase_orders[po_id].status = "cancelled"

\* A receipt has occurred on order po_id: a shipment that carries units of it
\* is delivered, in part or in full.
ReceiptOccurred(po_id) ==
    \E i \in DOMAIN shipments :
        /\ shipments[i].purchase_order_id = po_id
        /\ shipments[i].items # <<>>
        /\ shipments[i].status \in {"delivered", "partially_delivered"}

\* C15: once a receipt has occurred on an order with items, the order's
\* status is received exactly when every item's received_quantity is its
\* quantity, it is partially_received when some but not all units are
\* received, and no item's received_quantity exceeds its quantity.
C15_StatusFollowsReceivedQuantities ==
    \A po_id \in DOMAIN purchase_orders :
        LET o == purchase_orders[po_id]
            all == \A i \in DOMAIN o.items :
                       o.items[i].received_quantity = o.items[i].quantity
            some == \E i \in DOMAIN o.items : o.items[i].received_quantity > 0
        IN  ReceiptOccurred(po_id) /\ o.items # <<>>
            => /\ (o.status = "received") <=> all
               /\ some /\ ~all => o.status = "partially_received"
               /\ \A i \in DOMAIN o.items :
                      o.items[i].received_quantity <= o.items[i].quantity

\* The result of an adjustment of row inventory_id in the current store.
Adjusted(inventory_id, adjustment_type, quantity, created_by) ==
    create_inventory_adjustment(inventory, inventory_adjustments,
        inventory_counts, inventory_id, adjustment_type, quantity, created_by)

\* C16: an issue of more than a row holds fails, leaves the row's quantity
\* as it was and records no adjustment.
C16_IssueBeyondOnHandFails ==
    \A inventory_id \in DOMAIN inventory :
        \A q \in AdjustmentQuantities, created_by \in InventoryUsers :
            q > inventory[inventory_id].quantity
            => LET r == Adjusted(inventory_id, "issue", q, created_by)
               IN  /\ r.status >= 400
                   /\ r.inventory = inventory
                   /\ r.inventory_adjustments = inventory_adjustments

\* C17: after any sequence of inventory create, update, adjust and count
\* operations, no inventory row has a negative quantity.
C17_QuantityNeverNegative ==
    \A i \in DOMAIN inventory : inventory[i].quantity >= 0

\* C18: an adjustment of q units adds q to the row's quantity for the types
\* receipt and return, and takes q from it for the types issue and damage
\* when the row holds at least q.
C18_SignedDeltaByType ==
    \A inventory_id \in DOMAIN inventory :
        \A q \in AdjustmentQuantities, created_by \in InventoryUsers :
            LET old == inventory[inventory_id].quantity
                after(t) ==
                    Adjusted(inventory_id, t, q, created_by)
                        .inventory[inventory_id].quantity
            IN  /\ \A t \in {"receipt", "return"} : after(t) = old + q
                /\ old - q >= 0
                       => \A t \in {"issue", "damage"} : after(t) = old - q

\* C19: a physical count c of an existing row that holds h adds exactly one
\* count record, with system_quantity h and difference c - h, touches no
\* adjustment record and leaves the row's quantity at c; when c = h the
\* row, its last count date included, is not written.
C19_CountRecordsDifference ==
    \A inventory_id \in DOMAIN inventory :
        \A c \in CountedQuantities, created_by \in InventoryUsers,
           now \in Times :
            LET h == inventory[inventory_id].quantity
                r == create_inventory_count(inventory, inventory_adjustments,
                         inventory_counts, inventory_id, c, created_by, now)
            IN  /\ r.status = 200
                /\ Len(r.inventory_counts) = Len(inventory_counts) + 1
                /\ SubSeq(r.inventory_counts, 1, Len(inventory_counts))
                       = inventory_counts
                /\ LET rec == r.inventory_counts[Len(r.inventory_counts)]
                   IN  /\ rec.inventory_id = inventory_id
                       /\ rec.counted_quantity = c
                       /\ rec.system_quantity = h
                       /\ rec.difference = c - h
                /\ r.inventory_adjustments = inventory_adjustments
                /\ r.inventory[inventory_id].quantity = c
                /\ \A i \in DOMAIN inventory :
                       i # inventory_id => r.inventory[i] = inventory[i]
                /\ c = h => r.inventory = inventory

\* C19 witness: a count that found what the row held has been recorded with
\* difference 0, on a row that holds stock, was adjusted before and has
\* never been written by a count.
C19_Witness ==
    /\ last.op = "create_inventory_count" /\ last.status = 200
    /\ inventory_adjustments # <<>>
    /\ \E i \in DOMAIN inventory_counts :
          LET rec == inventory_counts[i]
          IN  /\ rec.difference = 0
              /\ rec.system_quantity > 0
              /\ inventory[rec.inventory_id].quantity = rec.counted_quantity
              /\ inventory[rec.inventory_id].last_count_date = NoDate

\* The committed tables once every write of the request in session s is made.
Effect(s) ==
    IF s.op = "delete_category"
    THEN [s.before EXCEPT !.categories =
             CategoryService_delete_category(@, s.id, s.force)]
    ELSE LET r == create_inventory_adjustment(s.before.inventory,
                      s.before.inventory_adjustments, <<>>, s.id,
                      s.adjustment_type, s.quantity, s.pending[1].created_by)
         IN  [s.before EXCEPT !.inventory = r.inventory,
                              !.inventory_adjustments = r.inventory_adjustments]

\* The step ends the open request with an error.
RequestFails == session.pc # "closed" /\ session'.pc = "closed" /\ last'.status = 500

\* A step writes the committed tables only as a whole request: one handled
\* in a single step, or the commit of the open request, which makes all of
\* its writes.
NoPartialWrite ==
    Committed' # Committed
        => \/ session.pc = "closed"
           \/ session.pc = "commit" /\ Committed' = Effect(session)

\* C20 as stated: a delete or adjust that fails at any statement leaves the
\* committed tables as they were before the request, and no step makes only
\* some of a request's writes visible.
C20_AtomicOnAnyFailure ==
    [][/\ RequestFails => Committed' = session.before
       /\ NoPartialWrite]_vars

\* C20 amended: a delete or adjust that fails at any statement up to and
\* including its commit leaves the committed tables as they were before the
\* request; one that fails after its commit (at the refresh of the returned
\* row) leaves all of its writes committed; no step makes only some of a
\* request's writes visible.
C20_AtomicUntilCommit ==
    [][/\ RequestFails =>
              Committed' = IF session.pc = "refresh" THEN Effect(session)
                                                     ELSE session.before
       /\ NoPartialWrite]_vars

\* C20 witness: a forced delete of a category with a child is about to
\* commit: its transaction has deactivated both rows and the committed table
\* still has both active.
C20_Witness ==
    /\ session.op = "delete_category" /\ session.force /\ session.pc = "commit"
    /\ \E d \in DOMAIN categories :
          /\ categories[d].parent_id = session.id
          /\ categories[d].is_active /\ categories[session.id].is_active
          /\ ~session.tx_categories[d].is_active
          /\ ~session.tx_categories[session.id].is_active

\* The call of client c returned normally.
Succeeded(c) == requests[c].pc = "returned" /\ requests[c].status = 200

\* The quantity the call of client c wrote, seen from what it read.
Change(c) ==
    IF requests[c].op = "create_inventory_count"
    THEN requests[c].quantity - requests[c].read_quantity
    ELSE new_quantity(requests[c].read_quantity, requests[c].adjustment_type,
                      requests[c].quantity) - requests[c].read_quantity

\* Clients c and d changed the same inventory row, each having read it
\* before the other wrote, and d committed last.
Raced(c, d) ==
    /\ c # d /\ Succeeded(c) /\ Succeeded(d)
    /\ requests[c].op \in InventoryOps /\ requests[d].op \in InventoryOps
    /\ requests[c].id = requests[d].id
    /\ requests[c].read_quantity = requests[d].read_quantity
    /\ Change(c) # 0 /\ Change(d) # 0
    /\ requests[c].committed_at < requests[d].committed_at

\* The record of the call of client c is stored.
Recorded(c) ==
    IF requests[c].op = "create_inventory_count"
    THEN \E i \in DOMAIN inventory_counts :
            /\ inventory_counts[i].created_by = c
            /\ inventory_counts[i].counted_quantity = requests[c].quantity
    ELSE \E i \in DOMAIN inventory_adjustments :
            /\ inventory_adjustments[i].created_by = c
            /\ inventory_adjustments[i].quantity = requests[c].quantity
            /\ inventory_adjustments[i].adjustment_type =
                  requests[c].adjustment_type

\* C21: lost updates on the quantity are possible.  Whenever two concurrent
\* adjust (or adjust and count) operations on the same inventory row have
\* each read the quantity before the other wrote, and both have returned
\* successfully, both records exist and the stored quantity is the quantity
\* they read changed by the last committer alone; the first committer's
\* change is lost.
C21_LostUpdate ==
    \A c, d \in Clients :
        Raced(c, d) =>
            /\ Recorded(c) /\ Recorded(d)
            /\ inventory[requests[d].id].quantity =
                  requests[d].read_quantity + Change(d)
            /\ inventory[requests[d].id].quantity #
                  requests[d].read_quantity + Change(c) + Change(d)

\* Two adjustments raced: one of the two changes is missing from the stored
\* quantity, both calls succeeded and both adjustment records exist.
C21_Witness ==
    \E c, d \in Clients :
        /\ Raced(c, d)
        /\ requests[c].op = "create_inventory_adjustment"
        /\ requests[d].op = "create_inventory_adjustment"
        /\ Len(inventory_adjustments) = 2
        /\ inventory[requests[d].id].quantity =
              requests[d].read_quantity + Change(d)
        /\ Change(c) # 0

\* The endpoints that depend on get_current_user.
AuthenticatedOps ==
    {"update_user_me", "create_user", "update_user", "delete_user",
     "update_user_status"}

CredentialsDetail == "Could not validate credentials"
InactiveDetail == "Inactive user"

\* The last request got past get_current_user: its response is none of the
\* dependency's.
Proceeded ==
    last.detail \notin {CredentialsDetail, InactiveDetail, "Invalid token",
                        "Authentication service temporarily unavailable"}

\* C22: get_current_user lets a request proceed only for a token that
\* verifies and whose subject is a stored, active user; a token that does
\* not verify or whose subject is no stored user is answered 401 'Could not
\* validate credentials', and a token of an inactive user 400 'Inactive
\* user'.
C22_RejectsWith401Or400 ==
    last.op \in AuthenticatedOps =>
        LET token == caller.token
            verified == token.valid /\ token.sub # NoSub
        IN  /\ Proceeded <=> (verified /\ caller.stored /\ caller.is_active)
            /\ (~verified \/ ~caller.stored) =>
                  last.status = 401 /\ last.detail = CredentialsDetail
            /\ (verified /\ caller.stored /\ ~caller.is_active) =>
                  last.status = 400 /\ last.detail = InactiveDetail

\* Category i lies on a cycle of the parent_id relation.
OnCycle(cats, i) ==
    \E k \in 1..Len(cats) : Ancestor(cats, i, k) = i

\* C23: would_create_circular_reference terminates for every content of the
\* store, malformed parent chains with a self-reference or a cycle that does
\* not pass through category_id included; it selects the parent of each
\* category at most once, and returns what the walk up the chain finds.
C23_WalkTerminates ==
    /\ [](~walk.repeated)
    /\ [](Cardinality(walk.visited) <= MaxMalformed + 1)
    /\ [](walk.pc = "done" =>
             walk.result = would_create_circular_reference(categories,
                               walk.category_id, walk.new_parent_id))
    /\ (walk.pc = "loop" ~> walk.pc = "done")

\* The check has returned False after walking into a cycle that does not
\* pass through category_id.
C23_Witness ==
    /\ walk.pc = "done" /\ ~walk.result
    /\ \E i \in walk.visited :
          /\ i \in DOMAIN categories
          /\ OnCycle(categories, i)
          /\ ~OnCycle(categories, walk.category_id)
          /\ categories[i].parent_id \in walk.visited

\* Result r is the not-found error and leaves the inventory tables as they
\* are.
NotFoundAndUnchanged(r) ==
    /\ r.status # 200 /\ r.detail = "Inventory not found"
    /\ r.inventory = inventory
    /\ r.inventory_adjustments = inventory_adjustments
    /\ r.inventory_counts = inventory_counts

\* C24: an adjustment or a count on an inventory_id that resolves to no row
\* returns the not-found error and leaves the store unchanged: no adjustment
\* or count record is added and no inventory row is modified.
C24_UnknownInventoryLeavesStore ==
    \A inventory_id \in InventoryIds \ DOMAIN inventory,
       created_by \in InventoryUsers :
        /\ \A adjustment_type \in AdjustmentTypes,
              quantity \in AdjustmentQuantities :
              NotFoundAndUnchanged(
                  create_inventory_adjustment(inventory, inventory_adjustments,
                      inventory_counts, inventory_id, adjustment_type,
                      quantity, created_by))
        /\ \A counted_quantity \in CountedQuantities, now \in Times :
              NotFoundAndUnchanged(
                  create_inventory_count(inventory, inventory_adjustments,
                      inventory_counts, inventory_id, counted_quantity,
                      created_by, now))

\* An adjustment or a count named an id beside the stored row and was
\* answered with the not-found error.
C24_Witness ==
    /\ last.op \in {"create_inventory_adjustment", "create_inventory_count"}
    /\ last.detail = "Inventory not found"
    /\ Len(inventory) = MaxInventory
    /\ inventory_adjustments = <<>> /\ inventory_counts = <<>>

\* C25: two category updates running at the same time cannot together
\* create a cycle: after every interleaving of 're-parent A under B' and
\* 're-parent B under A', each running its checks and then its write, no
\* category is its own ancestor.
C25_ConcurrentReparentAcyclic ==
    (\A c \in Clients : requests[c].pc \in {"idle", "returned"}) =>
        \A i \in DOMAIN categories : ~OnCycle(categories, i)

\* C26: after any sequence of category create and update requests, no two
\* distinct categories with the same parent (or both without a parent) have
\* the same name, also after a re-parent that leaves the name as it is.
C26_SiblingNamesDiffer ==
    \A i, j \in DOMAIN categories :
        (i # j /\ categories[i].parent_id = categories[j].parent_id)
            => categories[i].name # categories[j].name

\* C27: after any sequence of category create, update and delete requests,
\* forced or not, no active category has an inactive ancestor: deactivating
\* a category leaves no active descendant, and no category is created,
\* re-parented or re-activated under an inactive parent.
C27_NoActiveBelowInactive ==
    \A i \in DOMAIN categories :
        categories[i].is_active =>
            \A k \in 1..Len(categories) :
                LET a == Ancestor(categories, i, k)
                IN  a \in DOMAIN categories => categories[a].is_active

\* Response r refuses the request and leaves users and tokens as they are.
RefusedUnchanged(r) ==
    /\ r.status \notin {200, 201, 204}
    /\ r.users = users /\ r.tokens = tokens

\* Every endpoint that depends on get_current_user refuses a request that
\* carries token.
RefusedEverywhere(token) ==
    /\ get_current_user(users, token).status # 200
    /\ \A user_id \in UserRowIds, is_active \in OptBool,
          role \in RoleInputs \cup {NoRole} :
          /\ RefusedUnchanged(update_user_me(users, tokens, token, is_active, role))
          /\ RefusedUnchanged(update_user(users, tokens, token, user_id,
                                          is_active, role))
          /\ RefusedUnchanged(delete_user(users, tokens, token, user_id))
    /\ \A user_id \in UserRowIds, is_active \in BOOLEAN, email \in Emails,
          role \in RoleInputs :
          /\ RefusedUnchanged(update_user_status(users, tokens, token, user_id,
                                                 is_active))
          /\ RefusedUnchanged(create_user(users, tokens, token, email, "p",
                                          role, is_active))

\* C28: while a user is deactivated (soft delete or is_active set to false)
\* every request that carries a token issued to that user is rejected by
\* get_current_user, and login for that user issues no token; this lasts
\* until the user is reactivated.
C28_DeactivatedUserLockedOut ==
    /\ \A token \in tokens :
          (token.sub \in DOMAIN users /\ ~users[token.sub].is_active)
              => RefusedEverywhere(token)
    /\ \A u \in DOMAIN users :
          ~users[u].is_active =>
              \A password \in Passwords :
                  RefusedUnchanged(login(users, tokens, users[u].email, password))
    /\ (last.op \in AuthenticatedOps /\ caller.stored /\ ~caller.is_active)
          => ~Proceeded

\* A user logged in and was then deactivated; the last request carried the
\* token issued at that login and was rejected.
C28_Witness ==
    /\ caller.token \in tokens
    /\ caller.stored /\ ~caller.is_active
    /\ ~users[caller.token.sub].is_active
    /\ last.op \in AuthenticatedOps
    /\ last.status = 500

\* C29: only an administrator changes a user's role or active status: no
\* request made by a caller who is not an administrator changes the role or
\* is_active of any stored user, the caller's own record through the
\* self-service update included.
C29_OnlyAdminChangesRoleOrStatus ==
    [][~caller'.is_admin =>
          \A u \in DOMAIN users :
              /\ users'[u].role = users[u].role
              /\ users'[u].is_active = users[u].is_active]_vars

\* Sequence a is sequence b with one entry appended.
OneAppended(a, b) ==
    Len(a) = Len(b) + 1 /\ SubSeq(a, 1, Len(b)) = b

\* C30: a shipment's status_history is append-only and tracks its status:
\* each update_shipment_status call on an existing shipment appends exactly
\* one entry, the earlier entries unchanged and in call order, and after any
\* sequence of update_shipment and update_shipment_status calls the current
\* status equals the status of the last history entry whenever the history
\* is non-empty.
C30_HistoryTracksStatus ==
    /\ [][\A i \in DOMAIN shipments :
             IF last'.op = "update_shipment_status" /\ last'.status = 200
             THEN /\ OneAppended(shipments'[i].status_history,
                                 shipments[i].status_history)
                  /\ shipments'[i].status_history[
                         Len(shipments'[i].status_history)] = shipments'[i].status
             ELSE shipments'[i].status_history = shipments[i].status_history]_vars
    /\ [](\A i \in DOMAIN shipments :
             shipments[i].status_history # <<>> =>
                 shipments[i].status =
                     shipments[i].status_history[Len(shipments[i].status_history)])
====
